---- MODULE Spec2Model ----
(***************************************************************************)
(* A model of radecbot (src/radecbot/radecbot.py): the sexagesimal         *)
(* rendering of right ascension / declination, the phase of the Moon, the  *)
(* position resolver and the two report composers.                         *)
(*                                                                         *)
(* A right ascension is a whole number of ticks of 1/TicksPerSec second of *)
(* time and a declination a signed number of ticks of 1/TicksPerSec        *)
(* arcsecond; the program receives the double nearest to that many hours   *)
(* or degrees.  Text is a sequence of one-character strings; the non-ASCII *)
(* glyphs of the program are written as the tokens "DEG", "PRIME",         *)
(* "DPRIME" and "SYM_<body>", one element each, and the fixed header texts *)
(* are one element each.  The arithmetic of the sexagesimal parts, of the  *)
(* phase and of the illumination is done in IEEE-754 doubles, as the       *)
(* program does it: every operation is rounded to 53 bits.  A longitude is *)
(* the double of a whole number of ticks of 1/TicksPerDeg degree plus a    *)
(* few units of 2^-52 degree; a phase is the double moon_phase returns.    *)
(***************************************************************************)
EXTENDS Integers, Sequences, FiniteSets, TLC

VARIABLES
    f_pc, f_planet, f_ra, f_dec, f_line,    \* one rendered RA/Dec line
    p_pc, p_lunar, p_solar, p_phase, p_illum, p_out,  \* the phase of the Moon
    \* one call of compose_planet_tweet() or compose_moonsun_tweet()
    pc,                 \* the position in the call
    fn,                 \* the function called
    cached,             \* the ephemeris file is in the cache directory
    downloaded,         \* load_ephemerides called the download step
    acc,                \* get_all_radecs: the dictionary being filled
    idx,                \* the index of the running for loop
    radecs,             \* the position map get_all_radecs returned
    slist,              \* s, the list of strings of the report
    current_moon_phase, \* the phase moon_phase returned
    ret,                \* the string returned
    exc,                \* the exception raised
    \* a composer called again with the same frozen inputs
    ncall,              \* the number of calls started
    entry_cached,       \* the file was in the cache when the call started
    prev_downloaded,    \* the previous call called the download step
    frozen_radecs,      \* the position map of the previous call
    frozen_phase,       \* the phase of the previous call
    \* one run of tweet()
    t_pc,               \* the position in tweet()
    composed,           \* the reports whose composer has returned
    posted              \* the status updates posted, in order

fvars == <<f_pc, f_planet, f_ra, f_dec, f_line>>
pvars == <<p_pc, p_lunar, p_solar, p_phase, p_illum, p_out>>
cvars == <<pc, fn, cached, downloaded, acc, idx, radecs, slist, current_moon_phase,
           ret, exc>>
rvars == <<ncall, entry_cached, prev_downloaded, frozen_radecs, frozen_phase>>
tvars == <<t_pc, composed, posted>>
vars == <<fvars, pvars, cvars, rvars, tvars>>

None == "None"
\* no dictionary (a dictionary is a function, which "None" cannot be compared to)
NoMap == [b \in {"None"} |-> "None"]

-----------------------------------------------------------------------------
(* Bounds of the model *)

\* ticks per second of time / per arcsecond
TicksPerSec == 10
\* whole hours, minutes, seconds and degrees are taken within EdgeW of the
\* ends of their range (and some in the middle), with every tick of the second
EdgeW == 0
\* ticks per degree of a longitude or phase
TicksPerDeg == 2
\* phase_str is applied to phases up to OutOfRange degrees outside [0, 360)
OutOfRange == 30
\* a composer is called at most MaxCalls times in a row
MaxCalls == 2

-----------------------------------------------------------------------------
(* Python helpers *)

Abs(x) == IF x < 0 THEN -x ELSE x

DigitChar(k) == CASE k = 0 -> "0" [] k = 1 -> "1" [] k = 2 -> "2" [] k = 3 -> "3"
                  [] k = 4 -> "4" [] k = 5 -> "5" [] k = 6 -> "6" [] k = 7 -> "7"
                  [] k = 8 -> "8" [] k = 9 -> "9"

RECURSIVE Digits(_)
Digits(n) == IF n < 10 THEN <<DigitChar(n)>>
             ELSE Digits(n \div 10) \o <<DigitChar(n % 10)>>

RECURSIVE Zeros(_)
Zeros(k) == IF k <= 0 THEN <<>> ELSE <<"0">> \o Zeros(k - 1)

\* format(x, '[+]0<width>d'): sign, then zeros, then the digits of |x|; the
\* width counts the sign
PyFormatD(x, plus, width) ==
    LET sgn == IF x < 0 THEN <<"-">> ELSE IF plus THEN <<"+">> ELSE <<>>
        ds  == Digits(Abs(x))
    IN  sgn \o Zeros(width - Len(sgn) - Len(ds)) \o ds

-----------------------------------------------------------------------------
(* Python floats: IEEE-754 doubles, every operation rounded to 53 bits *)

\* a whole number is kept in Limbs limbs of LimbBits bits, least significant
\* first
LimbBits == 15
Limbs == 8
Base == 2 ^ LimbBits
\* significant bits of a double
Mantissa == 53
\* bits a dividend is shifted up by, so that the quotient has spare bits
GuardBits == 30
\* an operand this many binary places below the other does not change a sum
FarBelow == 60

Limb(a, j) == IF j >= 1 /\ j <= Limbs THEN a[j] ELSE 0

BigZero == [j \in 1 .. Limbs |-> 0]

\* the whole number n, 0 <= n < Base * Base
BigOfInt(n) ==
    [j \in 1 .. Limbs |-> IF j = 1 THEN n % Base ELSE IF j = 2 THEN n \div Base ELSE 0]

\* the value of a, for a < Base * Base
BigToInt(a) == a[1] + Base * a[2]

RECURSIVE AddFrom(_, _, _, _)
AddFrom(a, b, j, carry) ==
    IF j > Limbs THEN <<>>
    ELSE LET s == a[j] + b[j] + carry
         IN  <<s % Base>> \o AddFrom(a, b, j + 1, s \div Base)

BigAdd(a, b) == AddFrom(a, b, 1, 0)

RECURSIVE SubFrom(_, _, _, _)
SubFrom(a, b, j, borrow) ==
    IF j > Limbs THEN <<>>
    ELSE LET s == a[j] - b[j] - borrow
         IN  <<s % Base>> \o SubFrom(a, b, j + 1, IF s < 0 THEN 1 ELSE 0)

\* a - b for a >= b
BigSub(a, b) == SubFrom(a, b, 1, 0)

RECURSIVE LessFrom(_, _, _)
LessFrom(a, b, j) ==
    IF j = 0 THEN FALSE
    ELSE IF a[j] # b[j] THEN a[j] < b[j]
    ELSE LessFrom(a, b, j - 1)

BigLess(a, b) == LessFrom(a, b, Limbs)

RECURSIVE MulFrom(_, _, _, _)
MulFrom(a, c, j, carry) ==
    IF j > Limbs THEN <<>>
    ELSE LET s == a[j] * c + carry
         IN  <<s % Base>> \o MulFrom(a, c, j + 1, s \div Base)

\* a * c for a whole number 0 <= c < Base
BigMulSmall(a, c) == MulFrom(a, c, 1, 0)

RECURSIVE DivFrom(_, _, _, _)
DivFrom(a, d, j, rem) ==
    IF j = 0 THEN [q |-> <<>>, r |-> rem]
    ELSE LET cur  == rem * Base + a[j]
             rest == DivFrom(a, d, j - 1, cur % d)
         IN  [q |-> rest.q \o <<cur \div d>>, r |-> rest.r]

\* the quotient of a by a whole number 0 < d < 2 * Base, and the remainder
BigDivSmall(a, d) == DivFrom(a, d, Limbs, 0)

\* a * 2^k
BigShiftLeft(a, k) ==
    LET s == k \div LimbBits
        r == k % LimbBits
    IN  [j \in 1 .. Limbs |->
            ((Limb(a, j - s) * (2 ^ r)) % Base)
            + (Limb(a, j - s - 1) \div (2 ^ (LimbBits - r)))]

\* a \div 2^k
BigShiftRight(a, k) ==
    LET s == k \div LimbBits
        r == k % LimbBits
    IN  [j \in 1 .. Limbs |->
            (Limb(a, j + s) \div (2 ^ r))
            + ((Limb(a, j + s + 1) % (2 ^ r)) * (2 ^ (LimbBits - r)))]

RECURSIVE IntBitLen(_)
IntBitLen(n) == IF n = 0 THEN 0 ELSE 1 + IntBitLen(n \div 2)

RECURSIVE BitLenFrom(_, _)
BitLenFrom(a, j) ==
    IF j = 0 THEN 0
    ELSE IF a[j] # 0 THEN LimbBits * (j - 1) + IntBitLen(a[j])
    ELSE BitLenFrom(a, j - 1)

\* the number of bits of a
BitLen(a) == BitLenFrom(a, Limbs)

BigIsZero(a) == BitLen(a) = 0

BigEq(a, b) == ~BigLess(a, b) /\ ~BigLess(b, a)

\* q, or q + 1 when the part low that was shifted out is above half, or is
\* half and q is odd; inexact says that low stands for a value slightly
\* above low (the remainder of a division)
RoundUp(q, low, half, inexact) ==
    IF BigLess(half, low) THEN BigAdd(q, BigOfInt(1))
    ELSE IF BigLess(low, half) THEN q
    ELSE IF inexact \/ q[1] % 2 = 1 THEN BigAdd(q, BigOfInt(1))
    ELSE q

RoundShiftTo(a, k, inexact, q) ==
    RoundUp(q, BigSub(a, BigShiftLeft(q, k)), BigShiftLeft(BigOfInt(1), k - 1), inexact)

\* a / 2^k rounded to a whole number, ties to even
RoundShift(a, k, inexact) ==
    IF k <= 0 THEN a ELSE RoundShiftTo(a, k, inexact, BigShiftRight(a, k))

\* a double: its sign, and its magnitude mant * 2^exp with mant of exactly 53
\* bits (0.0 is mant 0, exp 0); doubles below 2^-1022 or above 2^1023 are not
\* modelled
Float(neg, mant, exp) == [neg |-> neg, mant |-> mant, exp |-> exp]

\* a rounded mantissa m of 53 bits, or of 54 when the rounding carried
Renormalize(neg, m, exp) ==
    IF BitLen(m) > Mantissa THEN Float(neg, BigShiftRight(m, 1), exp + 1)
    ELSE Float(neg, [j \in 1 .. Limbs |-> m[j]], exp)

RoundDoubleLen(neg, mant, exp, inexact, len) ==
    IF len = 0 THEN Float(neg, BigZero, 0)
    ELSE IF len <= Mantissa
    THEN Float(neg, BigShiftLeft(mant, Mantissa - len), exp - (Mantissa - len))
    ELSE Renormalize(neg, RoundShift(mant, len - Mantissa, inexact),
                     exp + len - Mantissa)

\* the double nearest to +-mant * 2^exp, ties to even
RoundDouble(neg, mant, exp, inexact) ==
    RoundDoubleLen(neg, mant, exp, inexact, BitLen(mant))

FloatIsZero(x) == BigIsZero(x.mant)

\* float(n) for a whole number |n| < Base * Base; the doubles of the whole
\* numbers up to SmallInts are computed once
SmallInts == 360

SmallFloats == [n \in 0 .. SmallInts |-> RoundDouble(FALSE, BigOfInt(n), 0, FALSE)]

FloatOfInt(n) ==
    IF n \in 0 .. SmallInts THEN SmallFloats[n]
    ELSE RoundDouble(n < 0, BigOfInt(Abs(n)), 0, FALSE)

\* |x| < |y|
MagLess(x, y) ==
    IF FloatIsZero(y) THEN FALSE
    ELSE IF FloatIsZero(x) THEN TRUE
    ELSE IF x.exp # y.exp THEN x.exp < y.exp
    ELSE BigLess(x.mant, y.mant)

\* x < y
FloatLess(x, y) ==
    IF FloatIsZero(x) /\ FloatIsZero(y) THEN FALSE
    ELSE IF x.neg /\ ~y.neg THEN TRUE
    ELSE IF ~x.neg /\ y.neg THEN FALSE
    ELSE IF x.neg THEN MagLess(y, x)
    ELSE MagLess(x, y)

\* +-a + +-b for whole numbers a and b of one scale 2^exp
AddAligned(xneg, a, yneg, b, exp) ==
    RoundDouble(IF xneg = yneg THEN xneg
                ELSE IF BigLess(a, b) THEN yneg
                ELSE xneg /\ BigLess(b, a),
                IF xneg = yneg THEN BigAdd(a, b)
                ELSE IF BigLess(a, b) THEN BigSub(b, a)
                ELSE BigSub(a, b),
                exp, FALSE)

\* x + y for x # 0 and y # 0, where x has the larger exponent
AddOrdered(x, y) ==
    IF x.exp - y.exp > FarBelow THEN x
    ELSE AddAligned(x.neg, BigShiftLeft(x.mant, x.exp - y.exp), y.neg, y.mant, y.exp)

\* x + y
FloatAdd(x, y) ==
    IF FloatIsZero(x) THEN (IF FloatIsZero(y) THEN Float(x.neg /\ y.neg, BigZero, 0) ELSE y)
    ELSE IF FloatIsZero(y) THEN x
    ELSE AddOrdered(IF x.exp >= y.exp THEN x ELSE y, IF x.exp >= y.exp THEN y ELSE x)

\* x < n, x > n, x >= n and x <= n for a whole number n
FloatLt(x, n) == FloatLess(x, FloatOfInt(n))

FloatGt(x, n) == FloatLess(FloatOfInt(n), x)

FloatGe(x, n) == ~FloatLt(x, n)

FloatLe(x, n) == ~FloatGt(x, n)

\* x - y
FloatSub(x, y) == FloatAdd(x, Float(~y.neg, y.mant, y.exp))

\* np.abs(x)
FloatAbs(x) == Float(FALSE, x.mant, x.exp)

\* x * c for a whole number 0 < c < Base
FloatMulInt(x, c) == RoundDouble(x.neg, BigMulSmall(x.mant, c), x.exp, FALSE)

\* the double of a quotient qr.q with remainder qr.r
RoundQuotient(neg, qr, exp) == RoundDouble(neg, qr.q, exp, qr.r # 0)

\* x / d for a whole number 0 < d < 2 * Base
FloatDivInt(x, d) ==
    RoundQuotient(x.neg, BigDivSmall(BigShiftLeft(x.mant, GuardBits), d),
                  x.exp - GuardBits)

\* the double nearest to n / d (n ticks of 1/d unit)
FloatOfTicks(n, d) == FloatDivInt(FloatOfInt(n), d)

RECURSIVE Pow2Mod(_, _)
Pow2Mod(k, d) == IF k = 0 THEN 1 % d ELSE (2 * Pow2Mod(k - 1, d)) % d

\* the remainder by d of mant * 2^exp, a whole number (exp >= 0)
WholeRem(mant, exp, d) ==
    BigOfInt((BigDivSmall(mant, d).r * Pow2Mod(exp, d)) % d)

\* the remainder by d of mant / 2^k, in units of 2^-k, where whole is the
\* whole part of mant / 2^k
FracRem(mant, k, d, whole) ==
    BigAdd(BigShiftLeft(BigOfInt(BigDivSmall(whole, d).r), k),
           BigSub(mant, BigShiftLeft(whole, k)))

\* fmod(x, d) for a whole number 0 < d < Base: x minus a whole multiple of d,
\* with the sign of x and a magnitude below d; it is exact
FloatFmod(x, d) ==
    IF MagLess(x, FloatOfInt(d)) THEN x
    ELSE RoundDouble(x.neg,
                     IF x.exp >= 0 THEN WholeRem(x.mant, x.exp, d)
                     ELSE FracRem(x.mant, -x.exp, d, BigShiftRight(x.mant, -x.exp)),
                     IF x.exp >= 0 THEN 0 ELSE x.exp, FALSE)

\* mod + d when mod is negative, 0.0 when it is zero
WrapMod(mod, d) ==
    IF FloatIsZero(mod) THEN Float(FALSE, BigZero, 0)
    ELSE IF mod.neg THEN FloatAdd(mod, FloatOfInt(d))
    ELSE mod

\* x % d for a whole number d > 0: fmod, then + d when the result is negative
FloatMod(x, d) == WrapMod(FloatFmod(x, d), d)

\* math.floor(x) as a double
FloatFloor(x) ==
    IF FloatIsZero(x) \/ x.exp >= 0 THEN x
    ELSE LET k     == -x.exp
             whole == BigShiftRight(x.mant, k)
             exact == k < Mantissa /\ BigEq(BigShiftLeft(whole, k), x.mant)
         IN  IF ~x.neg THEN RoundDouble(FALSE, whole, 0, FALSE)
             ELSE IF exact THEN x
             ELSE RoundDouble(TRUE, BigAdd(whole, BigOfInt(1)), 0, FALSE)

\* 0.5
Half == RoundDouble(FALSE, BigOfInt(1), -1, FALSE)

\* if div - floordiv > 0.5: floordiv += 1.0
DivmodPick(mod, div, low) ==
    IF FloatLess(Half, FloatSub(div, low)) THEN <<FloatAdd(low, FloatOfInt(1)), mod>>
    ELSE <<low, mod>>

\* if div: floordiv = floor(div) ... else: floordiv = copysign(0.0, x / d)
DivmodFloor(x, mod, div) ==
    IF FloatIsZero(div) THEN <<Float(x.neg, BigZero, 0), mod>>
    ELSE DivmodPick(mod, div, FloatFloor(div))

\* if mod: if mod < 0: mod += d; div -= 1.0
\* else: mod = 0.0
DivmodWrap(x, d, fmod, quot) ==
    DivmodFloor(x, WrapMod(fmod, d),
                IF ~FloatIsZero(fmod) /\ fmod.neg THEN FloatSub(quot, FloatOfInt(1))
                ELSE quot)

\* mod = fmod(x, d); div = (x - mod) / d
DivmodOf(x, d, fmod) == DivmodWrap(x, d, fmod, FloatDivInt(FloatSub(x, fmod), d))

\* divmod(x, d) for a whole number 0 < d < Base, as CPython and numpy
\* compute it: <<floordiv, mod>>
FloatDivmod(x, d) == DivmodOf(x, d, FloatFmod(x, d))

\* +-m
Signed(neg, m) == IF neg THEN -m ELSE m

\* int(x): the digits after the point are dropped
PyRoundFloatMutTrunc(x) ==
    Signed(x.neg, IF x.exp >= 0 THEN BigToInt(BigShiftLeft(x.mant, x.exp))
                  ELSE BigToInt(BigShiftRight(x.mant, -x.exp)))

\* int(round(x)) for a double |x| < Base * Base: the nearest integer, ties
\* to even
PyRoundFloat(x) ==
    Signed(x.neg, IF x.exp >= 0 THEN BigToInt(BigShiftLeft(x.mant, x.exp))
                  ELSE IF -x.exp > FarBelow THEN 0
                  ELSE BigToInt(RoundShift(x.mant, -x.exp, FALSE)))

-----------------------------------------------------------------------------
(* Inputs of the rendering: angles as the ephemeris can return them *)

\* ticks of h hours (d degrees), m minutes, s seconds and t ticks
Ticks(h, m, s, t) == ((h * 60 + m) * 60 + s) * TicksPerSec + t

HourSamples == (0 .. EdgeW) \cup {12} \cup ((23 - EdgeW) .. 23)
MinSamples  == (0 .. EdgeW) \cup {30} \cup ((59 - EdgeW) .. 59)
DegSamples  == (0 .. EdgeW) \cup {80} \cup ((89 - EdgeW) .. 89)
SecSamples  == (0 .. EdgeW) \cup {28, 29, 30} \cup ((59 - EdgeW) .. 59)
TickSamples == 0 .. (TicksPerSec - 1)

\* right ascensions, in [0 h, 24 h)
RAInputs == {Ticks(h, m, s, t) : h \in HourSamples, m \in MinSamples,
                                 s \in SecSamples, t \in TickSamples}

\* declinations, in [-90 deg, +90 deg]
DecMagnitudes == {Ticks(d, m, s, t) : d \in DegSamples, m \in MinSamples,
                                      s \in SecSamples, t \in TickSamples}
                 \cup {Ticks(90, 0, 0, 0)}
DecInputs == DecMagnitudes \cup {-x : x \in DecMagnitudes}

\* the angles of tests/test_radecbot.py: 12.51 h; 80.51, -1.51 and -0.51 deg
RACore  == {Ticks(12, 30, 36, 0)}
DecCore == {Ticks(80, 30, 36, 0), -Ticks(1, 30, 36, 0), -Ticks(0, 30, 36, 0)}

NonEarth == {"SUN", "MOON", "MERCURY", "VENUS", "MARS", "JUPITER", "SATURN",
             "URANUS", "NEPTUNE"}

FormatInputs == ({"JUPITER"} \X RAInputs \X DecCore)
                \cup ({"JUPITER"} \X RACore \X DecInputs)
                \cup (NonEarth \X RACore \X DecCore)

\* the positions the ephemeris returns for a body: the angles of the tests
\* and a right ascension whose seconds round up
PosSamples == {<<Ticks(12, 30, 36, 0), Ticks(80, 30, 36, 0)>>,
               <<Ticks(23, 59, 59, 6), -Ticks(0, 30, 36, 0)>>}

\* every angle the model renders
RAShown  == RAInputs \cup RACore \cup {pos[1] : pos \in PosSamples}
DecShown == DecInputs \cup DecCore \cup {pos[2] : pos \in PosSamples}

-----------------------------------------------------------------------------
(* skyfield.units.Angle.hms() / .dms(), as compose_*_tweet call them *)

\* an angle is a whole number of ticks of 1/TicksPerSec second (arcsecond);
\* Angle(hours=...) and Angle(degrees=...) keep it as the double nearest to
\* that many hours (degrees)
AngleValue(angle) == FloatOfTicks(angle, 3600 * TicksPerSec)

\* np.sign(value)
Sign(x) == IF FloatIsZero(x) THEN 0 ELSE IF x.neg THEN -1 ELSE 1

\* sign * x for sign in {-1, 0, 1} and x >= 0
FloatTimesSign(sign, x) ==
    IF sign = 0 THEN Float(FALSE, BigZero, 0) ELSE Float(sign < 0, x.mant, x.exp)

\* return sign, units, minutes, seconds
SexagesimalParts(sign, um, seconds) ==
    [sign |-> sign, units |-> um[1], minutes |-> um[2], seconds |-> seconds]

\* units, minutes = divmod(minutes, 60.0)
SexagesimalUnits(sign, ms) == SexagesimalParts(sign, FloatDivmod(ms[1], 60), ms[2])

\* _sexagesimalize_to_float: sign, whole units, whole minutes, seconds
\*   sign = np.sign(value); n = abs(value)
\*   minutes, seconds = divmod(n * 3600.0, 60.0)
sexagesimalize_to_float(value) ==
    SexagesimalUnits(Sign(value), FloatDivmod(FloatMulInt(FloatAbs(value), 3600), 60))

\* return sign * units, sign * minutes, sign * seconds
SignedParts(x) ==
    <<FloatTimesSign(x.sign, x.units), FloatTimesSign(x.sign, x.minutes),
      FloatTimesSign(x.sign, x.seconds)>>

\* hms() and dms(): all three parts carry the sign of the angle
hms(angle) == SignedParts(sexagesimalize_to_float(AngleValue(angle)))

dms(angle) == SignedParts(sexagesimalize_to_float(AngleValue(angle)))

\* map(int, map(round, t))
RoundedTriple(t) == <<PyRoundFloat(t[1]), PyRoundFloat(t[2]), PyRoundFloat(t[3])>>

-----------------------------------------------------------------------------
(* The body catalog *)

Planets == <<"SUN", "MOON", "MERCURY", "VENUS", "EARTH", "MARS", "JUPITER",
             "SATURN", "URANUS", "NEPTUNE">>

SYMBOLS == [p \in {"SUN", "MOON", "MERCURY", "VENUS", "MARS", "JUPITER",
                   "SATURN", "URANUS", "NEPTUNE"} |->
            CASE p = "SUN" -> "SYM_SUN" [] p = "MOON" -> "SYM_MOON"
              [] p = "MERCURY" -> "SYM_MERCURY" [] p = "VENUS" -> "SYM_VENUS"
              [] p = "MARS" -> "SYM_MARS" [] p = "JUPITER" -> "SYM_JUPITER"
              [] p = "SATURN" -> "SYM_SATURN" [] p = "URANUS" -> "SYM_URANUS"
              [] p = "NEPTUNE" -> "SYM_NEPTUNE"]

-----------------------------------------------------------------------------
(* One line of a report *)

\* ra_hr, ra_min, ra_sec = map(int, map(round, ra.hms())) and
\* dec_deg, dec_min, dec_sec = map(int, map(round, dec.dms())), computed once
\* for every angle the model renders
HmsShown == [ra \in RAShown |-> RoundedTriple(hms(ra))]
DmsShown == [dec \in DecShown |-> RoundedTriple(dms(dec))]

\* f'{ra_hr:02d}h{ra_min:02d}m{ra_sec:02d}s'
FormatRA(t) ==
    PyFormatD(t[1], FALSE, 2) \o <<"h">> \o PyFormatD(t[2], FALSE, 2)
    \o <<"m">> \o PyFormatD(t[3], FALSE, 2) \o <<"s">>

\* f'{dec_deg:+03d}{DEG}{abs(dec_min):01d}{PRIME}{abs(dec_sec):02}{DPRIME}'
FormatDec(t) ==
    PyFormatD(t[1], TRUE, 3) \o <<"DEG">> \o PyFormatD(Abs(t[2]), FALSE, 1)
    \o <<"PRIME">> \o PyFormatD(Abs(t[3]), FALSE, 2) \o <<"DPRIME">>

\* f'{SYMBOLS[planet]}: ' f'{RA}; ' f'{Dec}'
FormatLine(planet, ra, dec) ==
    <<SYMBOLS[planet], ":", " ">> \o FormatRA(HmsShown[ra]) \o <<";", " ">>
    \o FormatDec(DmsShown[dec])

-----------------------------------------------------------------------------
(* The phase of the Moon *)

\* d degrees in ticks
Deg(d) == d * TicksPerDeg

\* an ecliptic longitude <<k, u>>: the double of k ticks, plus u units of
\* 2^-52 degree (1 + 2^-52 is the double that follows 1.0)
LonUnit == 52

Longitude(l) ==
    FloatAdd(FloatOfTicks(l[1], TicksPerDeg),
             RoundDouble(FALSE, BigOfInt(l[2]), -LonUnit, FALSE))

\* (lunar_longitude.degrees - solar_longitude.degrees) % 360
moon_phase(lunar, solar) ==
    FloatMod(FloatSub(Longitude(lunar), Longitude(solar)), 360)

\* 100 * (1 - np.abs(phase - 180) / 180)
moon_illuminationMutNoAbs(phase) ==
    FloatMulInt(FloatSub(FloatOfInt(1),
                         FloatDivInt(FloatSub(phase, FloatOfInt(180)), 180)), 100)

moon_illumination(phase) ==
    FloatMulInt(FloatSub(FloatOfInt(1),
                         FloatDivInt(FloatAbs(FloatSub(phase, FloatOfInt(180))), 180)),
                100)

\* the if/elif chain of phase_str; when no branch is taken the local name is
\* unbound and the f-string raises UnboundLocalError
PhrasesMutClosedAbove(phase) ==
    IF FloatGe(phase, 345) \/ FloatLe(phase, 15) THEN "new"
    ELSE IF FloatGt(phase, 15) /\ FloatLe(phase, 75) THEN "a waxing crescent"
    ELSE IF FloatGt(phase, 75) /\ FloatLe(phase, 105) THEN "at first quarter"
    ELSE IF FloatGt(phase, 105) /\ FloatLe(phase, 165) THEN "a waxing gibbous"
    ELSE IF FloatGt(phase, 165) /\ FloatLe(phase, 195) THEN "full"
    ELSE IF FloatGt(phase, 195) /\ FloatLe(phase, 255) THEN "a waning gibbous"
    ELSE IF FloatGt(phase, 255) /\ FloatLe(phase, 285) THEN "at third quarter"
    ELSE IF FloatGt(phase, 285) /\ FloatLt(phase, 345) THEN "a waning crescent"
    ELSE "UnboundLocalError"

Phrases(phase) ==
    IF FloatGe(phase, 345) \/ FloatLt(phase, 15) THEN "new"
    ELSE IF FloatGe(phase, 15) /\ FloatLt(phase, 75) THEN "a waxing crescent"
    ELSE IF FloatGe(phase, 75) /\ FloatLt(phase, 105) THEN "at first quarter"
    ELSE IF FloatGe(phase, 105) /\ FloatLt(phase, 165) THEN "a waxing gibbous"
    ELSE IF FloatGe(phase, 165) /\ FloatLt(phase, 195) THEN "full"
    ELSE IF FloatGe(phase, 195) /\ FloatLt(phase, 255) THEN "a waning gibbous"
    ELSE IF FloatGe(phase, 255) /\ FloatLt(phase, 285) THEN "at third quarter"
    ELSE IF FloatGe(phase, 285) /\ FloatLt(phase, 345) THEN "a waning crescent"
    ELSE "UnboundLocalError"

\* f'The moon is {words} and is {illumination}% illuminated.'
PhaseText(words, illumination) ==
    IF words = "UnboundLocalError"
    THEN [raised |-> "UnboundLocalError", text |-> <<>>]
    ELSE [raised |-> None,
          text |-> <<"The moon is ", words, " and is ">>
                   \o PyFormatD(illumination, FALSE, 0)
                   \o <<"% illuminated.">>]

\* phase_str: the sentence, or the error raised
phase_str(phase) ==
    PhaseText(Phrases(phase), PyRoundFloat(moon_illumination(phase)))

-----------------------------------------------------------------------------
(* The rendering of one line, applied to every input *)

FormatCall ==
    /\ f_pc = "start"
    /\ \E in \in FormatInputs :
          /\ f_planet' = in[1]
          /\ f_ra' = in[2]
          /\ f_dec' = in[3]
          /\ f_line' = FormatLine(in[1], in[2], in[3])
    /\ f_pc' = "done"
    /\ UNCHANGED <<pvars, cvars, rvars, tvars>>

FInit == f_pc = "start" /\ f_planet = None /\ f_ra = None /\ f_dec = None
         /\ f_line = None

PInit == p_pc = "start" /\ p_lunar = None /\ p_solar = None /\ p_phase = None
         /\ p_illum = None /\ p_out = None

\* no call of a composer is running; the cache holds the ephemeris file
CIdle == /\ pc = "idle" /\ fn = None /\ cached = TRUE /\ downloaded = FALSE
         /\ acc = NoMap /\ idx = 0 /\ radecs = NoMap /\ slist = None
         /\ current_moon_phase = None /\ ret = None /\ exc = None

\* no call was made before; tweet() is not running
RInit == /\ ncall = 0 /\ entry_cached = None /\ prev_downloaded = None
         /\ frozen_radecs = NoMap /\ frozen_phase = None

TInit == t_pc = "start" /\ composed = {} /\ posted = <<>>

InitFormat == FInit /\ PInit /\ CIdle /\ RInit /\ TInit

SpecFormat == InitFormat /\ [][FormatCall]_vars

-----------------------------------------------------------------------------
(* The phase of the Moon, applied to every input *)

\* ecliptic longitudes, in [0, 360)
LonAll  == 0 .. (Deg(360) - 1)
\* the longitudes of test_moon_phase (Moon 129, Sun 281) and the two ends
LonCore == {0, Deg(129), Deg(281), Deg(360) - 1}
\* the Moon at 0, at 1 or at a bound of the if/elif chain of phase_str and
\* the Sun at 2^-52, 2^-49, 2^-46 or 2^-44 degree; the Sun 2^-52 degree
\* ahead of the Moon at 1
LonClose ==
    {<<<<Deg(b), 0>>, <<0, u>>>> :
        b \in {0, 1, 15, 75, 105, 165, 195, 255, 285, 345}, u \in {1, 8, 64, 256}}
    \cup {<<<<Deg(1), 0>>, <<Deg(1), 1>>>>}
LonInputs ==
    {<<<<in[1], 0>>, <<in[2], 0>>>> : in \in (LonAll \X LonCore) \cup (LonCore \X LonAll)}
    \cup LonClose

\* phases given to phase_str directly, also outside [0, 360)
PhaseInputs == (-Deg(OutOfRange)) .. (Deg(360) + Deg(OutOfRange))

\* current_moon_phase = moon_phase(ephemerides, t)
MoonPhaseCall ==
    /\ p_pc = "start"
    /\ \E in \in LonInputs :
          /\ p_lunar' = in[1]
          /\ p_solar' = in[2]
          /\ p_phase' = moon_phase(in[1], in[2])
    /\ p_pc' = "phase"
    /\ UNCHANGED <<p_illum, p_out, fvars, cvars, rvars, tvars>>

\* s.append(phase_str(current_moon_phase))
PhaseStrOfMoonPhase ==
    /\ p_pc = "phase"
    /\ p_illum' = moon_illumination(p_phase)
    /\ p_out' = phase_str(p_phase)
    /\ p_pc' = "done"
    /\ UNCHANGED <<p_lunar, p_solar, p_phase, fvars, cvars, rvars, tvars>>

\* phase_str(phase) called with any number
PhaseStrCall ==
    /\ p_pc = "start"
    /\ \E ph \in PhaseInputs :
          /\ p_phase' = FloatOfTicks(ph, TicksPerDeg)
          /\ p_illum' = moon_illumination(FloatOfTicks(ph, TicksPerDeg))
          /\ p_out' = phase_str(FloatOfTicks(ph, TicksPerDeg))
    /\ p_pc' = "direct"
    /\ UNCHANGED <<p_lunar, p_solar, fvars, cvars, rvars, tvars>>

PNext == MoonPhaseCall \/ PhaseStrOfMoonPhase \/ PhaseStrCall

InitPhase == FInit /\ PInit /\ CIdle /\ RInit /\ TInit

SpecPhase == InitPhase /\ [][PNext]_vars

-----------------------------------------------------------------------------
(* One call of compose_planet_tweet() or compose_moonsun_tweet() *)

\* '\n'.join(s)
RECURSIVE Join(_, _)
Join(list, sep) ==
    IF Len(list) = 0 THEN <<>>
    ELSE IF Len(list) = 1 THEN list[1]
    ELSE list[1] \o <<sep>> \o Join(Tail(list), sep)

\* the ecliptic longitudes the ephemeris returns for the Moon and the Sun
LunarSamples == {<<0, 0>>, <<Deg(129), 0>>, <<Deg(180), 0>>, <<Deg(281), 0>>}
SolarSamples == {<<0, 0>>, <<Deg(281), 0>>, <<0, 1>>}
\* what moon_phase(ephemerides, t) returns for them
MoonPhaseSamples ==
    {moon_phase(lunar, solar) : lunar \in LunarSamples, solar \in SolarSamples}
\* phase_str of these phases, computed once
PhaseStrSamples == [phase \in MoonPhaseSamples |-> phase_str(phase)]

\* the bodies get_all_radecs leaves out
ResolverSkips == {"EARTH"}

\* the bodies compose_planet_tweet leaves out
PlanetTweetSkipsMutEarthOnly == {"EARTH"}

PlanetTweetSkips == {"EARTH", "SUN", "MOON"}

\* the bodies of compose_moonsun_tweet, in the order of its loop
MoonSunBodiesMutSwapped == <<"MOON", "SUN">>

MoonSunBodies == <<"SUN", "MOON">>

PlanetHeader == <<"Current planetary RA/Decs:", "\n">>
MoonSunHeader == <<"Current RA/Dec of the Sun & Moon:", "\n">>

\* s = [header]: a new list at every call
NewList(header) == <<header>>

Raise(e) ==
    /\ pc' = "raised"
    /\ exc' = e
    /\ acc' = NoMap
    /\ slist' = None
    /\ UNCHANGED <<fn, cached, downloaded, idx, radecs, current_moon_phase, ret>>

\* the composer f is entered: nothing of an earlier call is left but the
\* cache directory
Enter(f) ==
    /\ fn' = f
    /\ pc' = "load_ephemerides"
    /\ entry_cached' = cached
    /\ downloaded' = FALSE
    /\ acc' = NoMap /\ idx' = 0 /\ radecs' = NoMap /\ slist' = None
    /\ current_moon_phase' = None /\ ret' = None /\ exc' = None
    /\ UNCHANGED <<cached, fvars, pvars>>

\* compose_planet_tweet() or compose_moonsun_tweet() is called
Call ==
    /\ pc = "idle"
    /\ \E f \in {"compose_planet_tweet", "compose_moonsun_tweet"} : Enter(f)
    /\ ncall' = 1
    /\ UNCHANGED <<prev_downloaded, frozen_radecs, frozen_phase, tvars>>

\* load_ephemerides: the file is absent, loader.download is called; it
\* leaves the file in the cache, or returns without it
LoadEphemeridesDownload ==
    /\ pc = "load_ephemerides"
    /\ ~cached
    /\ downloaded' = TRUE
    /\ \E ok \in BOOLEAN : cached' = ok
    /\ pc' = "check_file"
    /\ UNCHANGED <<fn, acc, idx, radecs, slist, current_moon_phase, ret, exc,
                   fvars, pvars, rvars, tvars>>

\* load_ephemerides: the file is absent, loader.download is called and
\* raises (skyfield raises IOError when the URL cannot be fetched)
LoadEphemeridesDownloadRaises ==
    /\ pc = "load_ephemerides"
    /\ ~cached
    /\ downloaded' = TRUE
    /\ pc' = "raised"
    /\ exc' = "IOError"
    /\ UNCHANGED <<fn, cached, acc, idx, radecs, slist, current_moon_phase, ret,
                   fvars, pvars, rvars, tvars>>

\* load_ephemerides: the file is present, no download
LoadEphemeridesCachedMutDownloads ==
    /\ pc = "load_ephemerides"
    /\ cached
    /\ downloaded' = TRUE
    /\ pc' = "check_file"
    /\ UNCHANGED <<fn, cached, acc, idx, radecs, slist,
                   current_moon_phase, ret, exc, fvars, pvars, rvars, tvars>>

LoadEphemeridesCached ==
    /\ pc = "load_ephemerides"
    /\ cached
    /\ pc' = "check_file"
    /\ UNCHANGED <<fn, cached, downloaded, acc, idx, radecs, slist,
                   current_moon_phase, ret, exc, fvars, pvars, rvars, tvars>>

\* load_ephemerides: FileNotFoundError unless the file is there; then the
\* kernel is loaded and get_all_radecs starts with an empty dictionary
LoadEphemeridesCheck ==
    /\ pc = "check_file"
    /\ IF ~cached
       THEN Raise("FileNotFoundError")
       ELSE /\ pc' = "get_all_radecs"
            /\ acc' = <<>>
            /\ idx' = 1
            /\ UNCHANGED <<fn, cached, downloaded, radecs, slist,
                           current_moon_phase, ret, exc>>
    /\ UNCHANGED <<fvars, pvars, rvars, tvars>>

\* get_all_radecs: 'if planet == Planets.EARTH: continue'
GetAllRadecsSkip ==
    /\ pc = "get_all_radecs"
    /\ idx <= Len(Planets)
    /\ Planets[idx] \in ResolverSkips
    /\ idx' = idx + 1
    /\ UNCHANGED <<pc, fn, cached, downloaded, acc, radecs, slist,
                   current_moon_phase, ret, exc, fvars, pvars, rvars, tvars>>

\* get_all_radecs: radecs[planet] = get_planet_radec(...)
GetAllRadecsLookup ==
    /\ pc = "get_all_radecs"
    /\ idx <= Len(Planets)
    /\ Planets[idx] \notin ResolverSkips
    /\ \E pos \in PosSamples :
          acc' = [b \in DOMAIN acc \cup {Planets[idx]} |->
                    IF b = Planets[idx] THEN pos ELSE acc[b]]
    /\ idx' = idx + 1
    /\ UNCHANGED <<pc, fn, cached, downloaded, radecs, slist,
                   current_moon_phase, ret, exc, fvars, pvars, rvars, tvars>>

\* get_all_radecs: get_planet_radec raises (a body or an instant the kernel
\* does not cover); nothing catches it
GetAllRadecsLookupFailsMutSkipsBody ==
    /\ pc = "get_all_radecs"
    /\ idx <= Len(Planets)
    /\ Planets[idx] \notin ResolverSkips
    /\ idx' = idx + 1
    /\ UNCHANGED <<pc, fn, cached, downloaded, acc, radecs, slist,
                   current_moon_phase, ret, exc, fvars, pvars, rvars, tvars>>

GetAllRadecsLookupFails ==
    /\ pc = "get_all_radecs"
    /\ idx <= Len(Planets)
    /\ Planets[idx] \notin ResolverSkips
    /\ Raise("EphemerisError")
    /\ UNCHANGED <<fvars, pvars, rvars, tvars>>

\* get_all_radecs returns; the composer starts its list with the header
GetAllRadecsReturn ==
    /\ pc = "get_all_radecs"
    /\ idx > Len(Planets)
    /\ radecs' = acc
    /\ acc' = NoMap
    /\ slist' = NewList(IF fn = "compose_planet_tweet" THEN PlanetHeader
                         ELSE MoonSunHeader)
    /\ idx' = 1
    /\ pc' = IF fn = "compose_planet_tweet" THEN "planet_loop" ELSE "moonsun_loop"
    /\ UNCHANGED <<fn, cached, downloaded, current_moon_phase, ret, exc,
                   fvars, pvars, rvars, tvars>>

\* the body of either for loop: radecs[planet] (KeyError when absent), then
\* the line is appended
AppendLine(planet) ==
    IF planet \notin DOMAIN radecs
    THEN Raise("KeyError")
    ELSE /\ slist' = Append(slist, FormatLine(planet, radecs[planet][1],
                                              radecs[planet][2]))
         /\ idx' = idx + 1
         /\ UNCHANGED <<pc, fn, cached, downloaded, acc, radecs,
                        current_moon_phase, ret, exc>>

\* compose_planet_tweet: 'if planet in {EARTH, SUN, MOON}: continue'
PlanetLoopSkip ==
    /\ pc = "planet_loop"
    /\ idx <= Len(Planets)
    /\ Planets[idx] \in PlanetTweetSkips
    /\ idx' = idx + 1
    /\ UNCHANGED <<pc, fn, cached, downloaded, acc, radecs, slist,
                   current_moon_phase, ret, exc, fvars, pvars, rvars, tvars>>

PlanetLoopLine ==
    /\ pc = "planet_loop"
    /\ idx <= Len(Planets)
    /\ Planets[idx] \notin PlanetTweetSkips
    /\ AppendLine(Planets[idx])
    /\ UNCHANGED <<fvars, pvars, rvars, tvars>>

PlanetLoopEnd ==
    /\ pc = "planet_loop"
    /\ idx > Len(Planets)
    /\ pc' = "join"
    /\ UNCHANGED <<fn, cached, downloaded, acc, idx, radecs, slist,
                   current_moon_phase, ret, exc, fvars, pvars, rvars, tvars>>

MoonSunLoopLine ==
    /\ pc = "moonsun_loop"
    /\ idx <= Len(MoonSunBodies)
    /\ AppendLine(MoonSunBodies[idx])
    /\ UNCHANGED <<fvars, pvars, rvars, tvars>>

\* current_moon_phase = moon_phase(ephemerides, t); s.append('')
MoonSunMoonPhase ==
    /\ pc = "moonsun_loop"
    /\ idx > Len(MoonSunBodies)
    /\ \E phase \in MoonPhaseSamples : current_moon_phase' = phase
    /\ slist' = Append(slist, <<>>)
    /\ pc' = "phase_str"
    /\ UNCHANGED <<fn, cached, downloaded, acc, idx, radecs, ret, exc,
                   fvars, pvars, rvars, tvars>>

\* s.append(phase_str(current_moon_phase))
MoonSunPhaseStr ==
    /\ pc = "phase_str"
    /\ \E r \in {PhaseStrSamples[current_moon_phase]} :
          IF r.raised # None
          THEN Raise(r.raised)
          ELSE /\ slist' = Append(slist, r.text)
               /\ pc' = "join"
               /\ UNCHANGED <<fn, cached, downloaded, acc, idx, radecs,
                              current_moon_phase, ret, exc>>
    /\ UNCHANGED <<fvars, pvars, rvars, tvars>>

\* return '\n'.join(s)
Return ==
    /\ pc = "join"
    /\ ret' = Join(slist, "\n")
    /\ slist' = None
    /\ pc' = "returned"
    /\ UNCHANGED <<fn, cached, downloaded, acc, idx, radecs,
                   current_moon_phase, exc, fvars, pvars, rvars, tvars>>

\* the steps of a composer that is running
Step ==
    \/ LoadEphemeridesDownload \/ LoadEphemeridesDownloadRaises
    \/ LoadEphemeridesCached \/ LoadEphemeridesCheck
    \/ GetAllRadecsSkip \/ GetAllRadecsLookup \/ GetAllRadecsLookupFails
    \/ GetAllRadecsReturn
    \/ PlanetLoopSkip \/ PlanetLoopLine \/ PlanetLoopEnd
    \/ MoonSunLoopLine \/ MoonSunMoonPhase \/ MoonSunPhaseStr
    \/ Return

Next == Call \/ Step

\* a call starts with or without the ephemeris file in the cache
Init ==
    /\ FInit /\ PInit /\ RInit /\ TInit
    /\ pc = "idle" /\ fn = None /\ cached \in BOOLEAN /\ downloaded = FALSE
    /\ acc = NoMap /\ idx = 0 /\ radecs = NoMap /\ slist = None
    /\ current_moon_phase = None /\ ret = None /\ exc = None

Spec == Init /\ [][Next]_vars

-----------------------------------------------------------------------------
(* A composer called again with the same frozen inputs *)

\* the same composer is called once more after it returned; the ephemeris
\* will answer as it did (tests/test_radecbot.py freezes get_all_radecs and
\* moon_phase with mocks); the cache directory is the same
CallAgain ==
    /\ pc = "returned"
    /\ ncall < MaxCalls
    /\ ncall' = ncall + 1
    /\ prev_downloaded' = downloaded
    /\ frozen_radecs' = radecs
    /\ frozen_phase' = current_moon_phase
    /\ Enter(fn)
    /\ UNCHANGED tvars

\* the frozen inputs: every lookup answers as in the previous call
Replay ==
    frozen_radecs # NoMap =>
        /\ acc' # NoMap => \A b \in DOMAIN acc' : acc'[b] = frozen_radecs[b]
        /\ exc' # "EphemerisError"
        /\ pc' = "phase_str" => current_moon_phase' = frozen_phase

NextTwice ==
    \/ Call
    \/ LoadEphemeridesDownload /\ Replay
    \/ LoadEphemeridesDownloadRaises /\ Replay
    \/ LoadEphemeridesCached /\ Replay
    \/ LoadEphemeridesCheck /\ Replay
    \/ GetAllRadecsSkip /\ Replay
    \/ GetAllRadecsLookup /\ Replay
    \/ GetAllRadecsLookupFails /\ Replay
    \/ GetAllRadecsReturn /\ Replay
    \/ PlanetLoopSkip /\ Replay
    \/ PlanetLoopLine /\ Replay
    \/ PlanetLoopEnd /\ Replay
    \/ MoonSunLoopLine /\ Replay
    \/ MoonSunMoonPhase /\ Replay
    \/ MoonSunPhaseStr /\ Replay
    \/ Return /\ Replay
    \/ CallAgain

SpecTwice == Init /\ [][NextTwice]_vars

-----------------------------------------------------------------------------
(* One run of tweet() *)

\* the configuration file is read and the API object is built
TweetLoadConfig ==
    /\ t_pc = "start"
    /\ t_pc' = "compose_planet"
    /\ UNCHANGED <<composed, posted, fvars, pvars, cvars, rvars>>

\* the configuration file is missing or lacks a key: tweet() raises
TweetLoadConfigFails ==
    /\ t_pc = "start"
    /\ t_pc' = "failed"
    /\ UNCHANGED <<composed, posted, fvars, pvars, cvars, rvars>>

\* the argument of the first update_status is evaluated
TweetComposePlanet ==
    /\ t_pc = "compose_planet"
    /\ Enter("compose_planet_tweet")
    /\ ncall' = ncall + 1
    /\ t_pc' = "planet"
    /\ UNCHANGED <<prev_downloaded, frozen_radecs, frozen_phase, composed, posted>>

\* the argument of the second update_status is evaluated
TweetComposeMoonSun ==
    /\ t_pc = "compose_moonsun"
    /\ Enter("compose_moonsun_tweet")
    /\ ncall' = ncall + 1
    /\ t_pc' = "moonsun"
    /\ UNCHANGED <<prev_downloaded, frozen_radecs, frozen_phase, composed, posted>>

\* a step of the composer that tweet() is waiting for
TweetComposerStep ==
    /\ t_pc \in {"planet", "moonsun"}
    /\ Step

\* the composer raised: nothing in tweet() catches it
TweetComposerRaised ==
    /\ t_pc \in {"planet", "moonsun"}
    /\ pc = "raised"
    /\ t_pc' = "failed"
    /\ UNCHANGED <<composed, posted, fvars, pvars, cvars, rvars>>

\* api.update_status(<the report returned>) posts it
UpdateStatus(then) ==
    /\ pc = "returned"
    /\ composed' = composed \cup {fn}
    /\ posted' = Append(posted, [report |-> fn, text |-> ret])
    /\ t_pc' = then
    /\ UNCHANGED <<fvars, pvars, cvars, rvars>>

\* api.update_status raises (the API refuses the status or is unreachable)
UpdateStatusFails ==
    /\ pc = "returned"
    /\ composed' = composed \cup {fn}
    /\ t_pc' = "failed"
    /\ UNCHANGED <<posted, fvars, pvars, cvars, rvars>>

TweetPostPlanet == t_pc = "planet" /\ UpdateStatus("compose_moonsun")

TweetPostPlanetFails == t_pc = "planet" /\ UpdateStatusFails

TweetPostMoonSun == t_pc = "moonsun" /\ UpdateStatus("done")

TweetPostMoonSunFails == t_pc = "moonsun" /\ UpdateStatusFails

NextTweet ==
    \/ TweetLoadConfig \/ TweetLoadConfigFails
    \/ TweetComposePlanet \/ TweetComposeMoonSun
    \/ TweetComposerStep \/ TweetComposerRaised
    \/ TweetPostPlanet \/ TweetPostPlanetFails
    \/ TweetPostMoonSun \/ TweetPostMoonSunFails

SpecTweet == Init /\ [][NextTweet]_vars

-----------------------------------------------------------------------------
(* Reading a rendered line back *)

RECURSIVE IndexOfNewline(_, _)
\* the first index >= k of a newline in text, or 0
IndexOfNewline(text, k) ==
    IF k > Len(text) THEN 0
    ELSE IF text[k] = "\n" THEN k ELSE IndexOfNewline(text, k + 1)

\* the lines of a text: the parts between its newlines
RECURSIVE SplitLines(_)
SplitLines(text) ==
    LET n == IndexOfNewline(text, 1)
    IN  IF n = 0 THEN <<text>>
        ELSE <<SubSeq(text, 1, n - 1)>> \o SplitLines(SubSeq(text, n + 1, Len(text)))

RECURSIVE IndexOf(_, _, _)
\* the first index >= i of tok in seq, or 0
IndexOf(seq, tok, i) ==
    IF i > Len(seq) THEN 0
    ELSE IF seq[i] = tok THEN i ELSE IndexOf(seq, tok, i + 1)

DigitValue(c) == CASE c = "0" -> 0 [] c = "1" -> 1 [] c = "2" -> 2 [] c = "3" -> 3
                   [] c = "4" -> 4 [] c = "5" -> 5 [] c = "6" -> 6 [] c = "7" -> 7
                   [] c = "8" -> 8 [] c = "9" -> 9 [] OTHER -> -1

IsDigits(seq) == Len(seq) > 0 /\ \A i \in 1 .. Len(seq) : DigitValue(seq[i]) >= 0

RECURSIVE ParseNat(_)
ParseNat(seq) == IF Len(seq) = 0 THEN 0
                 ELSE 10 * ParseNat(SubSeq(seq, 1, Len(seq) - 1))
                      + DigitValue(seq[Len(seq)])

\* the text between the elements a (exclusive, 0: from the start) and b
Between(seq, a, b) == SubSeq(seq, a + 1, b - 1)

\* the RA field of a line: after 'symbol: ', up to the ';'
RAField(line) == Between(line, 3, IndexOf(line, ";", 1))
\* the Dec field of a line: after '; '
DecField(line) == SubSeq(line, IndexOf(line, ";", 1) + 2, Len(line))

RAHour(line) == LET f == RAField(line) IN Between(f, 0, IndexOf(f, "h", 1))
RAMin(line)  == LET f == RAField(line)
                IN  Between(f, IndexOf(f, "h", 1), IndexOf(f, "m", 1))
RASec(line)  == LET f == RAField(line)
                IN  Between(f, IndexOf(f, "m", 1), IndexOf(f, "s", 1))
\* the degree part of the Dec field with its sign, and without
DecSignedDeg(line) == LET f == DecField(line) IN Between(f, 0, IndexOf(f, "DEG", 1))
DecDeg(line) == LET d == DecSignedDeg(line) IN SubSeq(d, 2, Len(d))
DecMin(line) == LET f == DecField(line)
                IN  Between(f, IndexOf(f, "DEG", 1), IndexOf(f, "PRIME", 1))
DecSec(line) == LET f == DecField(line)
                IN  Between(f, IndexOf(f, "PRIME", 1), IndexOf(f, "DPRIME", 1))

-----------------------------------------------------------------------------
(* Claims about the rendering of one line (under SpecFormat) *)

\* C1: every negative declination, also one whose whole-degree part is zero,
\* is rendered with a leading '-' followed by the two-digit degree part.
C1_NegativeDecKeepsSign ==
    (f_pc = "done" /\ f_dec < 0) =>
        LET d == DecSignedDeg(f_line)
        IN  Len(d) = 3 /\ d[1] = "-" /\ IsDigits(SubSeq(d, 2, 3))

\* C2: the minute and second fields of the RA and of the Dec are in 0..59
\* and the RA hour field is in 0..23 (rounding carries are propagated).
C2_FieldsInRange ==
    f_pc = "done" =>
        /\ ParseNat(RAHour(f_line)) \in 0 .. 23
        /\ ParseNat(RAMin(f_line)) \in 0 .. 59
        /\ ParseNat(RASec(f_line)) \in 0 .. 59
        /\ ParseNat(DecMin(f_line)) \in 0 .. 59
        /\ ParseNat(DecSec(f_line)) \in 0 .. 59

\* the whole seconds shown by three fields
ShownSeconds(u1, u2, u3) == ParseNat(u1) * 3600 + ParseNat(u2) * 60 + ParseNat(u3)

\* n whole seconds are a nearest whole number of seconds to t ticks
NearestSecond(n, t) == 2 * Abs(n * TicksPerSec - t) <= TicksPerSec

\* C3: the three fields shown for the RA, and for the Dec, add up to the
\* magnitude of the angle rounded to the nearest whole second; 12.51 h with
\* +80.51 deg is rendered '12h30m36s; +80 deg 30 min 36 sec'.
C3_FieldsAddUpToRoundedAngle ==
    f_pc = "done" =>
        /\ IsDigits(RAHour(f_line)) /\ IsDigits(RAMin(f_line)) /\ IsDigits(RASec(f_line))
        /\ IsDigits(DecDeg(f_line)) /\ IsDigits(DecMin(f_line)) /\ IsDigits(DecSec(f_line))
        /\ NearestSecond(ShownSeconds(RAHour(f_line), RAMin(f_line), RASec(f_line)),
                         f_ra)
        /\ NearestSecond(ShownSeconds(DecDeg(f_line), DecMin(f_line), DecSec(f_line)),
                         Abs(f_dec))
        /\ (f_ra = Ticks(12, 30, 36, 0) /\ f_dec = Ticks(80, 30, 36, 0)) =>
               /\ RAField(f_line) = <<"1", "2", "h", "3", "0", "m", "3", "6", "s">>
               /\ DecField(f_line) = <<"+", "8", "0", "DEG", "3", "0", "PRIME",
                                       "3", "6", "DPRIME">>

\* C3 witness: an angle whose seconds are rounded up has been rendered
C3_Witness ==
    /\ f_pc = "done"
    /\ f_ra = Ticks(23, 59, 59, 6)
    /\ RASec(f_line) = <<"6", "0">>

-----------------------------------------------------------------------------
(* Claims about the phase of the Moon (under SpecPhase) *)

\* the bucket table of the classifier, in degrees: <<from, to, phrase>>
BucketTable ==
    << <<345, 360, "new">>, <<0, 15, "new">>, <<15, 75, "a waxing crescent">>,
       <<75, 105, "at first quarter">>, <<105, 165, "a waxing gibbous">>,
       <<165, 195, "full">>, <<195, 255, "a waning gibbous">>,
       <<255, 285, "at third quarter">>, <<285, 345, "a waning crescent">> >>

\* the rows of the table whose half-open interval holds the phase
RowsOf(phase) == {r \in 1 .. Len(BucketTable) :
                    FloatGe(phase, BucketTable[r][1]) /\ FloatLt(phase, BucketTable[r][2])}

PhaseStrDone == p_pc \in {"direct", "done"}

\* 0 <= phase < 360
InRange(phase) == FloatGe(phase, 0) /\ FloatLt(phase, 360)

\* the ticks nearest to a phase, and whether the phase is the double of a
\* whole number of ticks
PhaseTicks(phase) == PyRoundFloat(FloatMulInt(phase, TicksPerDeg))

OnGrid(phase) == FloatOfTicks(PhaseTicks(phase), TicksPerDeg) = phase

\* C6: every phase in [0, 360) lies in exactly one half-open interval of the
\* bucket table and phase_str names that bucket; a boundary value belongs to
\* the bucket that starts at it, the double just below it to the bucket before.
C6_BucketsAreHalfOpen ==
    (PhaseStrDone /\ InRange(p_phase)) =>
        /\ Cardinality(RowsOf(p_phase)) = 1
        /\ p_out.raised = None
        /\ \A r \in RowsOf(p_phase) : p_out.text[2] = BucketTable[r][3]

\* C6 witness: the boundary 15 is a waxing crescent
C6_Witness ==
    /\ p_pc = "direct" /\ p_phase = FloatOfInt(15)
    /\ p_out.text[2] = "a waxing crescent"

\* C7: a phase outside [0, 360) makes phase_str fail and return no sentence.
C7_OutOfRangeFails ==
    (PhaseStrDone /\ (FloatLt(p_phase, 0) \/ FloatGe(p_phase, 360))) =>
        (p_out.raised # None /\ p_out.text = <<>>)

\* |x - n / d| <= 2^-40 for a double 0 <= x < 2^13 and whole numbers n >= 0,
\* d > 0
FloatNear(x, n, d) ==
    IF FloatIsZero(x) THEN n = 0
    ELSE LET k == -x.exp
             a == BigMulSmall(x.mant, d)
             b == BigShiftLeft(BigOfInt(n), k)
             e == IF BigLess(a, b) THEN BigSub(b, a) ELSE BigSub(a, b)
         IN  /\ ~x.neg
             /\ k >= 40
             /\ ~BigLess(BigShiftLeft(BigOfInt(d), k - 40), e)

\* C8: on [0, 360] the illumination is within [0, 100], is 0 at 0 and at 360,
\* 100 at 180, rises linearly on [0, 180] and falls linearly on [180, 360]
\* (to 2^-40, the error of the double arithmetic).
C8_IlluminationIsTriangular ==
    (PhaseStrDone /\ FloatGe(p_phase, 0) /\ FloatLe(p_phase, 360)) =>
        /\ FloatGe(p_illum, 0) /\ FloatLe(p_illum, 100)
        /\ p_phase \in {FloatOfInt(0), FloatOfInt(360)} => FloatIsZero(p_illum)
        /\ p_phase = FloatOfInt(180) => p_illum = FloatOfInt(100)
        /\ OnGrid(p_phase) =>
              LET n == PhaseTicks(p_phase)
              IN  /\ n <= Deg(180) => FloatNear(p_illum, 100 * n, Deg(180))
                  /\ n >= Deg(180) => FloatNear(p_illum, 100 * (Deg(360) - n), Deg(180))

\* C8 witness: the illumination of a waning Moon (270 degrees) is 50
C8_Witness ==
    /\ p_pc = "direct" /\ p_phase = FloatOfInt(270)
    /\ p_illum = FloatOfInt(50)

\* C9: moon_phase is (lunar - solar) mod 360, in [0, 360), also when the
\* lunar longitude is the smaller one (129 - 281 gives 208); the phase
\* handed to phase_str is never negative and never 360 or more.
C9_PhaseIsNormalised ==
    p_pc \in {"phase", "done"} =>
        /\ InRange(p_phase)
        /\ (p_lunar[2] = 0 /\ p_solar[2] = 0) =>
              p_phase = FloatOfTicks((p_lunar[1] - p_solar[1]) % Deg(360), TicksPerDeg)
        /\ (p_lunar = <<Deg(129), 0>> /\ p_solar = <<Deg(281), 0>>) =>
              p_phase = FloatOfInt(208)

-----------------------------------------------------------------------------
(* Claims about the composers and the position resolver (under Spec) *)

PlanetOrder == <<"MERCURY", "VENUS", "MARS", "JUPITER", "SATURN", "URANUS",
                 "NEPTUNE">>

\* the line of a body as the position map has it
LineOf(body) == FormatLine(body, radecs[body][1], radecs[body][2])

\* C4: compose_planet_tweet returns the header, a blank line and exactly
\* seven lines 'symbol: RA; Dec', in the order Mercury .. Neptune, each with
\* the symbol and the position of its own body; none for Earth, Sun, Moon.
C4_PlanetReport ==
    (pc = "returned" /\ fn = "compose_planet_tweet") =>
        LET L == SplitLines(ret)
        IN  /\ Len(L) = 9
            /\ L[1] = <<"Current planetary RA/Decs:">>
            /\ L[2] = <<>>
            /\ \A k \in 1 .. 7 :
                  /\ L[k + 2][1] = SYMBOLS[PlanetOrder[k]]
                  /\ SubSeq(L[k + 2], 2, 3) = <<":", " ">>
                  /\ L[k + 2] = LineOf(PlanetOrder[k])
            /\ \A k \in 1 .. Len(ret) : ret[k] \notin {"SYM_SUN", "SYM_MOON"}

\* C4 witness: a report whose Mercury and Venus have different positions
C4_Witness ==
    /\ pc = "returned" /\ fn = "compose_planet_tweet"
    /\ radecs["MERCURY"] # radecs["VENUS"]
    /\ radecs["SUN"] # radecs["MERCURY"]
    /\ Len(SplitLines(ret)) = 9

\* n is a nearest integer to the illumination of the phase
NearestPercent(n, phase) ==
    /\ OnGrid(phase)
    /\ 2 * Abs(n * Deg(180) - 100 * (Deg(180) - Abs(PhaseTicks(phase) - Deg(180))))
          <= Deg(180)

\* C5: compose_moonsun_tweet returns the header, a blank line, the line of
\* the Sun, the line of the Moon, a blank line and the sentence with the
\* phrase of the bucket of the phase and the rounded illumination; for the
\* phase 180 the sentence is 'The moon is full and is 100% illuminated.'.
C5_MoonSunReport ==
    (pc = "returned" /\ fn = "compose_moonsun_tweet") =>
        LET L == SplitLines(ret)
            p == current_moon_phase
        IN  /\ Len(L) = 6
            /\ L[1] = <<"Current RA/Dec of the Sun & Moon:">>
            /\ L[2] = <<>>
            /\ L[3] = LineOf("SUN") /\ L[3][1] = "SYM_SUN"
            /\ L[4] = LineOf("MOON") /\ L[4][1] = "SYM_MOON"
            /\ L[5] = <<>>
            /\ Len(L[6]) >= 5
            /\ L[6][1] = "The moon is "
            /\ \A r \in RowsOf(p) : L[6][2] = BucketTable[r][3]
            /\ L[6][3] = " and is "
            /\ IsDigits(SubSeq(L[6], 4, Len(L[6]) - 1))
            /\ NearestPercent(ParseNat(SubSeq(L[6], 4, Len(L[6]) - 1)), p)
            /\ L[6][Len(L[6])] = "% illuminated."
            /\ p = FloatOfInt(180) =>
                  L[6] = <<"The moon is ", "full", " and is ", "1", "0", "0",
                           "% illuminated.">>

\* C5 witness: a report at full Moon, the Sun and the Moon at different places
C5_Witness ==
    /\ pc = "returned" /\ fn = "compose_moonsun_tweet"
    /\ current_moon_phase = FloatOfInt(180)
    /\ radecs["SUN"] # radecs["MOON"]
    /\ SplitLines(ret)[6][2] = "full"

\* C10: get_all_radecs returns a map whose keys are exactly the nine bodies
\* other than Earth, or the call fails as a whole: after a failed lookup no
\* map and no report is returned.
C10_AllOrNothing ==
    /\ radecs # NoMap =>
          DOMAIN radecs = {"SUN", "MOON", "MERCURY", "VENUS", "MARS", "JUPITER",
                           "SATURN", "URANUS", "NEPTUNE"}
    /\ pc \in {"planet_loop", "moonsun_loop", "phase_str", "join", "returned"} =>
          radecs # NoMap
    /\ exc = "EphemerisError" => (pc = "raised" /\ radecs = NoMap /\ ret = None)

\* C10 witness: the lookup of Mars fails after four bodies were resolved (the
\* Sun, the Moon, Mercury and Venus; the Earth is left out)
C10_Witness ==
    /\ pc = "raised" /\ exc = "EphemerisError"
    /\ idx = 6 /\ Planets[idx] = "MARS"
    /\ radecs = NoMap /\ ret = None

-----------------------------------------------------------------------------
(* Claims about a composer called twice (under SpecTwice) *)

\* load_ephemerides is over: it returned the kernel or raised
LoadOver == pc \notin {"idle", "load_ephemerides", "check_file"}

\* load_ephemerides returned the kernel: the composer went on with it
KernelReturned ==
    \/ pc \in {"get_all_radecs", "planet_loop", "moonsun_loop", "phase_str",
               "join", "returned"}
    \/ pc = "raised" /\ exc \in {"EphemerisError", "KeyError", "UnboundLocalError"}

\* C12: load_ephemerides calls the download step exactly when the file is
\* absent on entry; with the file present after that step it returns the
\* kernel; with the file still absent once the step has returned it raises
\* FileNotFoundError and returns no kernel (a download step that raises ends
\* the call with its own error); a call after a successful one finds the
\* file and does not download.
C12_DownloadOnlyWhenAbsent ==
    /\ pc = "load_ephemerides" => ~downloaded
    /\ pc \notin {"idle", "load_ephemerides"} => (downloaded <=> ~entry_cached)
    /\ LoadOver => (cached <=> KernelReturned)
    /\ (LoadOver /\ ~cached) =>
          /\ pc = "raised" /\ exc \in {"FileNotFoundError", "IOError"}
          /\ downloaded /\ radecs = NoMap /\ ret = None
    /\ exc = "FileNotFoundError" => (LoadOver /\ ~cached)
    /\ (ncall >= 2 /\ pc # "idle") => (entry_cached = TRUE /\ cached)
    /\ (ncall >= 2 /\ pc # "idle") => ~downloaded

\* C12 witness: the first call downloaded the file, the second call has
\* its kernel without a download
C12_Witness ==
    /\ ncall = 2 /\ pc = "get_all_radecs"
    /\ prev_downloaded = TRUE /\ downloaded = FALSE /\ cached

-----------------------------------------------------------------------------
(* Claims about tweet() (under SpecTweet) *)

\* the reports composed so far: posted or failed to post, or just returned
ComposedSoFar == composed \cup (IF pc = "returned" THEN {fn} ELSE {})

\* C13: at most two status updates are posted, the planetary report before
\* the Sun/Moon report, and none before both reports have been composed: a
\* failure while the Sun/Moon report is composed leaves nothing posted.
C13_PostsAfterBothComposed ==
    /\ Len(posted) <= 2
    /\ Len(posted) >= 1 => posted[1].report = "compose_planet_tweet"
    /\ Len(posted) = 2 => posted[2].report = "compose_moonsun_tweet"
    /\ Len(posted) >= 1 =>
          ComposedSoFar = {"compose_planet_tweet", "compose_moonsun_tweet"}
    /\ (fn = "compose_moonsun_tweet" /\ pc = "raised") => posted = <<>>

====
